---- MODULE Spec2Model ----
(***************************************************************************)
(* A model of the BITS packet decoder of src/src/day/day16.rs: the hex     *)
(* decoder, the bit reader, the varint decoder, the recursive packet       *)
(* decoder, the evaluator and the two solver entry points.                 *)
(*                                                                         *)
(* Bytes are integers 0..255.  A u8/u16 accumulator is an integer kept     *)
(* modulo 2^8 / 2^16.  A u64 is a sequence of 16 nibbles, most significant *)
(* first, so that shifts, leading zeros and overflow are exact.            *)
(***************************************************************************)
EXTENDS Integers, Sequences, FiniteSets, TLC

VARIABLES buf, offset, ret, lines, pc, bytes, packets, answer, overflow_checks

vars == <<buf, offset, ret, lines, pc, bytes, packets, answer, overflow_checks>>

readerVars == <<buf, offset, ret>>

solverVars == <<lines, pc, bytes, packets, answer, overflow_checks>>

----------------------------------------------------------------------------
(* Bounds of the model.                                                    *)

\* longest buffer of the exhaustive family of small buffers
MaxBufLen == 3

\* largest start offset of the varint family
MaxStart == 7

\* largest number of 5-bit groups in the varint family
MaxGroups == 17

----------------------------------------------------------------------------
(* Integer helpers.                                                        *)

RECURSIVE Pow2(_)
Pow2(n) == IF n = 0 THEN 1 ELSE 2 * Pow2(n - 1)

Min(a, b) == IF a <= b THEN a ELSE b

Max(a, b) == IF a <= b THEN b ELSE a

\* bitwise or of two naturals, bit by bit
RECURSIVE BitOr(_, _)
BitOr(a, b) ==
    IF a = 0 THEN b
    ELSE IF b = 0 THEN a
    ELSE (IF a % 2 = 1 \/ b % 2 = 1 THEN 1 ELSE 0) + 2 * BitOr(a \div 2, b \div 2)

\* u8::BITS
U8_BITS == 8

\* u16::BITS
U16_BITS == 16

\* Primitive::or : self | (rhs as Self)
PrimOr(self, rhs) == BitOr(self, rhs)

\* Primitive::shl : self << rhs, the bits shifted out of the type are lost
PrimShl(self, rhs, width) == (self * Pow2(rhs)) % Pow2(width)

----------------------------------------------------------------------------
(* BitReader.                                                              *)

\* get_byte refusing the last byte of the buffer
HasByteBeforeLast(b, bit_offset) == (bit_offset \div U8_BITS) + 1 < Len(b)

\* BitReader::get_byte : is there a byte at this bit offset
HasByte(b, bit_offset) == (bit_offset \div U8_BITS) + 1 <= Len(b)

GetByte(b, bit_offset) == b[(bit_offset \div U8_BITS) + 1]

\* BitReader::read : (byte >> shift) & mask
Read(byte, bit_index, count) ==
    LET shift == U8_BITS - bit_index - count
        mask == Pow2(count) - 1
    IN  (byte \div Pow2(shift)) % (mask + 1)

NoValue(off) == [some |-> FALSE, value |-> 0, offset |-> off]

\* the loop of BitReader::consume; self_offset is the field self.offset,
\* off, result and consumed_bits are the locals
RECURSIVE ConsumeLoop(_, _, _, _, _, _, _)
\* the loop writing self.offset as it goes: a failure leaves the cursor
\* after the bits read so far
ConsumeLoopEagerCursor(b, self_offset, count, width, off, result, consumed_bits) ==
    IF ~HasByte(b, off) THEN NoValue(off)
    ELSE LET byte == GetByte(b, off)
             bit_index == off % U8_BITS
             read_bits == Min(U8_BITS - bit_index, count - consumed_bits)
             result1 == PrimOr(result, Read(byte, bit_index, read_bits))
         IN  IF consumed_bits + read_bits = count
             THEN [some |-> TRUE, value |-> result1, offset |-> off + read_bits]
             ELSE ConsumeLoop(b, self_offset, count, width, off + read_bits,
                              PrimShl(result1, count - consumed_bits - read_bits, width),
                              consumed_bits + read_bits)

ConsumeLoop(b, self_offset, count, width, off, result, consumed_bits) ==
    IF ~HasByte(b, off) THEN NoValue(self_offset)
    ELSE LET byte == GetByte(b, off)
             bit_index == off % U8_BITS
             remaining_bits == U8_BITS - bit_index
             n_bits == count - consumed_bits
             read_bits == Min(remaining_bits, n_bits)
             value == Read(byte, bit_index, read_bits)
             result1 == PrimOr(result, value)
             consumed1 == consumed_bits + read_bits
             off1 == off + read_bits
         IN  IF consumed1 = count
             THEN [some |-> TRUE, value |-> result1, offset |-> off1]
             ELSE LET shift_by == count - consumed1
                  IN  ConsumeLoop(b, self_offset, count, width, off1,
                                  PrimShl(result1, shift_by, width), consumed1)

\* consume rewinding the reader when the count does not fit the primitive
ConsumeRewinding(b, off, count, width) ==
    IF count > width THEN NoValue(0)
    ELSE ConsumeLoop(b, off, count, width, off, 0, 0)

\* BitReader::consume::<T>(count) with T::BITS = width, on a reader at off
Consume(b, off, count, width) ==
    IF count > width THEN NoValue(off)
    ELSE ConsumeLoop(b, off, count, width, off, 0, 0)

----------------------------------------------------------------------------
(* u64 values: 16 nibbles, most significant first.                         *)

Nibbles == 16

U64Zero == <<0, 0, 0, 0, 0, 0, 0, 0, 0, 0, 0, 0, 0, 0, 0, 0>>

\* the nibbles of a natural below 2^31, least significant last
RECURSIVE NibblesOf(_, _)
NibblesOf(n, count) ==
    IF count = 0 THEN <<>> ELSE Append(NibblesOf(n \div 16, count - 1), n % 16)

\* the u64 of a natural below 2^31
U64Of(n) == NibblesOf(n, Nibbles)

\* u64::leading_zeros
RECURSIVE LeadingZeros(_)
LeadingZeros(v) ==
    IF v = <<>> THEN 0
    ELSE IF Head(v) = 0 THEN 4 + LeadingZeros(Tail(v))
    ELSE IF Head(v) >= 8 THEN 0
    ELSE IF Head(v) >= 4 THEN 1
    ELSE IF Head(v) >= 2 THEN 2
    ELSE 3

\* result |= x as u64, for x below 16
U64OrLow(v, x) == [v EXCEPT ![Nibbles] = BitOr(@, x)]

\* result <<= 4 : the top nibble is shifted out
U64Shl4(v) == Tail(v) \o <<0>>

----------------------------------------------------------------------------
(* Varint.                                                                 *)

\* group & 0x7 : a mask one bit short
PayloadMask7(group) == group % 8

\* group & 0xF
Payload(group) == group % 16

\* group < 0x10 : the top bit is not set, this is the last group
IsLastGroup(group) == group < 16

NoVarint(off) == [some |-> FALSE, value |-> U64Zero, size |-> 0, offset |-> off]

RECURSIVE VarintLoop(_, _, _, _)

\* the end of the loop body for the group g: return at a group without the
\* continuation bit, result <<= 4 and the next turn otherwise
VarintNext(b, g, result, size) ==
    IF IsLastGroup(g.value)
    THEN [some |-> TRUE, value |-> result, size |-> size, offset |-> g.offset]
    ELSE VarintLoop(b, g.offset, U64Shl4(result), size)

\* the loop body without the overflow guard
VarintGroupUnguarded(b, off, result, size, g) ==
    IF ~g.some THEN NoVarint(off)
    ELSE VarintNext(b, g, U64OrLow(result, Payload(g.value)), size + 1)

\* the loop body returning what was gathered when the stream is exhausted
VarintGroupSomeAtEnd(b, off, result, size, g) ==
    IF ~g.some
    THEN [some |-> TRUE, value |-> result, size |-> size, offset |-> off]
    ELSE IF LeadingZeros(result) < 4 THEN NoVarint(g.offset)
    ELSE VarintNext(b, g, U64OrLow(result, Payload(g.value)), size + 1)

\* the loop body for the group g read at off: the overflow guard, then
\* result |= payload and size += 1
VarintGroup(b, off, result, size, g) ==
    IF ~g.some THEN NoVarint(off)
    ELSE IF LeadingZeros(result) < 4 THEN NoVarint(g.offset)
    ELSE VarintNext(b, g, U64OrLow(result, Payload(g.value)), size + 1)

\* the while-let loop of Varint::decode on a reader at off
VarintLoop(b, off, result, size) ==
    VarintGroup(b, off, result, size, Consume(b, off, 5, U8_BITS))

\* Varint::decode
VarintDecode(b, off) == VarintLoop(b, off, U64Zero, 0)

----------------------------------------------------------------------------
(* Packets and the recursive packet decoder.                               *)

PACKET_SUM == 0

PACKET_PRODUCT == 1

PACKET_MINIMUM == 2

PACKET_MAXIMUM == 3

PACKET_LITERAL == 4

PACKET_GT == 5

PACKET_LT == 6

PACKET_EQ == 7

\* Packet { version, kind: PacketKind::Literal(Varint(value, size)) }
LiteralPacket(version, value, size) ==
    [version |-> version, kind |-> "Literal", literal |-> <<value, size>>]

\* Packet { version, kind: PacketKind::<kind>(packets) }
OperatorPacket(version, kind, subs) ==
    [version |-> version, kind |-> kind, packets |-> subs]

\* the match with the kinds of type ids 5 and 6 exchanged
KindOfLessAsGreater(type_id) ==
    CASE type_id = PACKET_SUM -> "Sum"
      [] type_id = PACKET_PRODUCT -> "Product"
      [] type_id = PACKET_MINIMUM -> "Minimum"
      [] type_id = PACKET_MAXIMUM -> "Maximum"
      [] type_id = PACKET_GT -> "Less"
      [] type_id = PACKET_LT -> "Greater"
      [] type_id = PACKET_EQ -> "Equal"
      [] OTHER -> "None"

\* the second match of decode_packet: type id to operator kind
KindOf(type_id) ==
    CASE type_id = PACKET_SUM -> "Sum"
      [] type_id = PACKET_PRODUCT -> "Product"
      [] type_id = PACKET_MINIMUM -> "Minimum"
      [] type_id = PACKET_MAXIMUM -> "Maximum"
      [] type_id = PACKET_GT -> "Greater"
      [] type_id = PACKET_LT -> "Less"
      [] type_id = PACKET_EQ -> "Equal"
      [] OTHER -> "None"

NoPacket(off) == [some |-> FALSE, packet |-> <<>>, offset |-> off]

NoPackets(off) == [some |-> FALSE, packets |-> <<>>, offset |-> off]

RECURSIVE DecodePacket(_, _)
RECURSIVE DecodeUntil(_, _, _, _)
RECURSIVE DecodeCount(_, _, _, _)
RECURSIVE DecodeLoop(_, _, _)

\* the while loop ending at the first sub-packet that fails and keeping the
\* sub-packets decoded before it
DecodeUntilPushKeepsDecoded(b, end_offset, acc, p) ==
    IF ~p.some THEN [some |-> TRUE, packets |-> acc, offset |-> p.offset]
    ELSE DecodeUntil(b, p.offset, end_offset, Append(acc, p.packet))

\* packets.push(decode_packet(reader)?) in the while loop, p the decoded packet
DecodeUntilPush(b, end_offset, acc, p) ==
    IF ~p.some THEN NoPackets(p.offset)
    ELSE DecodeUntil(b, p.offset, end_offset, Append(acc, p.packet))

\* the loop run while reader.offset <= end_offset: one packet too many
DecodeUntilInclusive(b, off, end_offset, acc) ==
    IF off <= end_offset
    THEN DecodeUntilPush(b, end_offset, acc, DecodePacket(b, off))
    ELSE [some |-> TRUE, packets |-> acc, offset |-> off]

\* while reader.offset < end_offset { packets.push(decode_packet(reader)?) }
DecodeUntil(b, off, end_offset, acc) ==
    IF off < end_offset
    THEN DecodeUntilPush(b, end_offset, acc, DecodePacket(b, off))
    ELSE [some |-> TRUE, packets |-> acc, offset |-> off]

\* one item of the collect into Option<Vec<_>>, p the decoded packet: the
\* first None ends the collect
DecodeCountPush(acc, p) ==
    IF ~p.some THEN NoPackets(p.offset)
    ELSE [some |-> TRUE, packets |-> Append(acc, p.packet), offset |-> p.offset]

RECURSIVE DecodeCountBlock(_, _, _, _)
\* the second half of a block of items, first what its first half gave
DecodeCountHalf(b, n, first) ==
    IF ~first.some THEN first
    ELSE DecodeCountBlock(b, first.offset, n, first.packets)

\* n >= 1 items of the collect, one decode_packet call after the other
\* from off on
DecodeCountBlock(b, off, n, acc) ==
    IF n = 1 THEN DecodeCountPush(acc, DecodePacket(b, off))
    ELSE DecodeCountHalf(b, n - (n \div 2), DecodeCountBlock(b, off, n \div 2, acc))

\* the items after the first ones, first what the first ones gave
DecodeCountRest(b, remaining, first) ==
    IF ~first.some THEN first
    ELSE DecodeCount(b, first.offset, remaining, first.packets)

\* (0..packets_count).map(|_| decode_packet(reader)).collect::<Option<Vec<_>>>()?
\* The calls are made one after the other from off on.  They are taken here
\* in blocks of 1, 2, 4, .. items (as many as are collected already, plus
\* one), which keeps the evaluation shallow for a count of thousands and
\* reaches the first call at once.
DecodeCount(b, off, remaining, acc) ==
    IF remaining = 0 THEN [some |-> TRUE, packets |-> acc, offset |-> off]
    ELSE DecodeCountRest(b, remaining - Min(remaining, Len(acc) + 1),
                         DecodeCountBlock(b, off, Min(remaining, Len(acc) + 1), acc))

\* let kind = match type_id { .. }; Some(Packet { version, kind }), subs the
\* result of either branch
DecodeOperatorKind(version, type_id, subs) ==
    IF ~subs.some THEN NoPacket(subs.offset)
    ELSE IF KindOf(type_id) = "None" THEN NoPacket(subs.offset)
    ELSE [some |-> TRUE,
          packet |-> OperatorPacket(version, KindOf(type_id), subs.packets),
          offset |-> subs.offset]

\* the branch length_type_id == 0, total_bits the 15-bit field
DecodeTotalBits(b, version, type_id, total_bits) ==
    IF ~total_bits.some THEN NoPacket(total_bits.offset)
    ELSE DecodeOperatorKind(version, type_id,
             DecodeUntil(b, total_bits.offset,
                         total_bits.offset + total_bits.value, <<>>))

\* the branch length_type_id == 1, packets_count the 11-bit field
DecodePacketsCount(b, version, type_id, packets_count) ==
    IF ~packets_count.some THEN NoPacket(packets_count.offset)
    ELSE DecodeOperatorKind(version, type_id,
             DecodeCount(b, packets_count.offset, packets_count.value, <<>>))

\* the operator arm after let length_type_id: u8 = reader.consume(1)?
DecodeLengthType(b, off, version, type_id, length_type_id) ==
    IF ~length_type_id.some THEN NoPacket(off)
    ELSE IF length_type_id.value = 0
    THEN DecodeTotalBits(b, version, type_id,
                         Consume(b, length_type_id.offset, 15, U16_BITS))
    ELSE DecodePacketsCount(b, version, type_id,
                            Consume(b, length_type_id.offset, 11, U16_BITS))

\* the operator arm of decode_packet, after version and type id
DecodeOperator(b, off, version, type_id) ==
    DecodeLengthType(b, off, version, type_id, Consume(b, off, 1, U8_BITS))

\* the literal arm taking a Varint that could not be read as a literal of
\* no group
DecodeLiteralOrEmpty(version, literal) ==
    [some |-> TRUE,
     packet |-> LiteralPacket(version, literal.value, literal.size),
     offset |-> literal.offset]

\* the literal arm after let literal = Varint::decode(reader)?
DecodeLiteral(version, literal) ==
    IF ~literal.some THEN NoPacket(literal.offset)
    ELSE [some |-> TRUE,
          packet |-> LiteralPacket(version, literal.value, literal.size),
          offset |-> literal.offset]

\* the match with the type id stored as the version of the packet
DecodeMatchVersionOfType(b, version, type_id) ==
    IF ~type_id.some THEN NoPacket(version.offset)
    ELSE IF type_id.value = PACKET_LITERAL
    THEN DecodeLiteral(type_id.value, VarintDecode(b, type_id.offset))
    ELSE DecodeOperator(b, type_id.offset, type_id.value, type_id.value)

\* match type_id, after let type_id = TypeId::decode(reader)?
DecodeMatch(b, version, type_id) ==
    IF ~type_id.some THEN NoPacket(version.offset)
    ELSE IF type_id.value = PACKET_LITERAL
    THEN DecodeLiteral(version.value, VarintDecode(b, type_id.offset))
    ELSE DecodeOperator(b, type_id.offset, version.value, type_id.value)

\* decode_packet after let version = Version::decode(reader)?
DecodeTypeId(b, off, version) ==
    IF ~version.some THEN NoPacket(off)
    ELSE DecodeMatch(b, version, Consume(b, version.offset, 3, U8_BITS))

\* bits::decode_packet on a reader at off; offset is the reader's offset on return
DecodePacket(b, off) == DecodeTypeId(b, off, Consume(b, off, 3, U8_BITS))

\* the body of the while-let of bits::decode, p the result of decode_packet
DecodeLoopPush(b, off, acc, p) ==
    IF p.some THEN DecodeLoop(b, p.offset, Append(acc, p.packet))
    ELSE [packets |-> acc, last_start |-> off, offset |-> p.offset]

\* the loop of bits::decode.  The function returns the field packets; last_start
\* (where the refused decode_packet call began) and offset (where the reader
\* was left) are the local reader's state when the loop ends.
DecodeLoop(b, off, acc) == DecodeLoopPush(b, off, acc, DecodePacket(b, off))

\* bits::decode
Decode(b) == DecodeLoop(b, 0, <<>>)

----------------------------------------------------------------------------
(* u64 arithmetic of the evaluator.                                        *)

\* the carry into nibble i of a + b: raised by a nibble below it whose digits
\* sum above 15 and passed on by the nibbles between them, whose digits sum
\* to 15
U64Carry(a, b, i) ==
    \E k \in (i + 1)..Nibbles :
        /\ a[k] + b[k] > 15
        /\ \A m \in (i + 1)..(k - 1) : a[m] + b[m] = 15

\* the first n nibbles of the wrapped sum a + b
RECURSIVE U64AddDigits(_, _, _)
U64AddDigits(a, b, n) ==
    IF n = 0 THEN <<>>
    ELSE Append(U64AddDigits(a, b, n - 1),
                (a[n] + b[n] + (IF U64Carry(a, b, n) THEN 1 ELSE 0)) % 16)

\* a + b : the wrapped sum and whether it overflowed 64 bits
U64Add(a, b) ==
    [value |-> U64AddDigits(a, b, Nibbles), overflow |-> U64Carry(a, b, 0)]

\* the digit a column of sum t leaves and the carry it passes on
U64MulDigit(t) == [digits |-> <<t % 16>>, carry |-> t \div 16]

\* the digits of two runs of columns, high above low
U64MulJoin(low, high) == [digits |-> low.digits \o high.digits, carry |-> high.carry]

\* the sum of the digit products of a * b that fall in column k (column 0
\* the least significant), over the n digits of a from column p on
RECURSIVE U64MulColumn(_, _, _, _, _)
U64MulColumn(a, b, k, p, n) ==
    IF n <= 0 THEN 0
    ELSE IF n = 1 THEN a[Nibbles - p] * b[Nibbles - (k - p)]
    ELSE U64MulColumn(a, b, k, p, n \div 2)
         + U64MulColumn(a, b, k, p + (n \div 2), n - (n \div 2))

\* the sum of column k of a * b and of the carry passed into it
U64MulSum(a, b, k, carry) ==
    U64MulColumn(a, b, k, Max(0, k - (Nibbles - 1)),
                 Min(k, Nibbles - 1) - Max(0, k - (Nibbles - 1)) + 1) + carry

RECURSIVE U64MulFrom(_, _, _, _, _)
\* the digits of n columns from column k on, low being the digits of the
\* columns below their middle and the carry those pass on
U64MulNext(a, b, k, n, low) ==
    U64MulJoin(low, U64MulFrom(a, b, k + (n \div 2), n - (n \div 2), low.carry))

\* the digits of the n columns k..k+n-1 of the full product a * b, least
\* significant first, and the carry they pass on, carry being what the
\* columns below k pass into column k
U64MulFrom(a, b, k, n, carry) ==
    IF n = 1 THEN U64MulDigit(U64MulSum(a, b, k, carry))
    ELSE U64MulNext(a, b, k, n, U64MulFrom(a, b, k, n \div 2, carry))

\* the low 64 bits of the 128-bit product whose digits are d, least
\* significant first, and whether the rest is not zero
U64MulSplit(d) ==
    [value |-> [i \in 1..Nibbles |-> d[Nibbles + 1 - i]],
     overflow |-> \E i \in (Nibbles + 1)..(2 * Nibbles) : d[i] # 0]

\* a * b : the wrapped product and whether it overflowed 64 bits
U64Mul(a, b) == U64MulSplit(U64MulFrom(a, b, 0, 2 * Nibbles, 0).digits)

\* a < b
RECURSIVE U64Less(_, _)
U64Less(a, b) ==
    IF a = <<>> THEN FALSE
    ELSE IF Head(a) # Head(b) THEN Head(a) < Head(b)
    ELSE U64Less(Tail(a), Tail(b))

----------------------------------------------------------------------------
(* Packet::eval.  A result is a value or a panic.  Arithmetic overflow in  *)
(* sum() and product() panics when the build has overflow checks (debug)   *)
(* and wraps when it has not (release): oc is the build's setting.         *)

EvalValue(v) == [panic |-> FALSE, value |-> v]

EvalPanic == [panic |-> TRUE, value |-> U64Zero]

RECURSIVE Eval(_, _)
RECURSIVE EvalFold(_, _, _, _, _)

\* the fold goes on with the result r of the checked addition or multiplication
EvalFoldChecked(subs, i, op, oc, r) ==
    IF r.overflow /\ oc THEN EvalPanic
    ELSE EvalFold(subs, i + 1, op, r.value, oc)

\* the step of the fold with min() keeping the greater value
EvalFoldStepMinAsMax(subs, i, op, acc, oc, e) ==
    IF e.panic THEN EvalPanic
    ELSE IF op = "sum" THEN EvalFoldChecked(subs, i, op, oc, U64Add(acc, e.value))
    ELSE IF op = "product" THEN EvalFoldChecked(subs, i, op, oc, U64Mul(acc, e.value))
    ELSE EvalFold(subs, i + 1, op, IF U64Less(e.value, acc) THEN acc ELSE e.value, oc)

\* one step of the fold, e the value of child i
EvalFoldStep(subs, i, op, acc, oc, e) ==
    IF e.panic THEN EvalPanic
    ELSE IF op = "sum" THEN EvalFoldChecked(subs, i, op, oc, U64Add(acc, e.value))
    ELSE IF op = "product" THEN EvalFoldChecked(subs, i, op, oc, U64Mul(acc, e.value))
    ELSE IF op = "min"
    THEN EvalFold(subs, i + 1, op, IF U64Less(e.value, acc) THEN e.value ELSE acc, oc)
    ELSE EvalFold(subs, i + 1, op, IF U64Less(e.value, acc) THEN acc ELSE e.value, oc)

\* packets.iter().map(Self::eval).sum() / .product() / .min() / .max(),
\* folded in order from position i with accumulator acc; op names the fold
EvalFold(subs, i, op, acc, oc) ==
    IF i > Len(subs) THEN EvalValue(acc)
    ELSE EvalFoldStep(subs, i, op, acc, oc, Eval(subs[i], oc))

\* the fold of min / max seeded with the value of the first child
EvalMinMaxFrom(subs, op, oc, first) ==
    IF first.panic THEN EvalPanic ELSE EvalFold(subs, 2, op, first.value, oc)

\* min().unwrap() / max().unwrap() : None, and the panic, without children
EvalMinMax(subs, op, oc) ==
    IF Len(subs) = 0 THEN EvalPanic
    ELSE EvalMinMaxFrom(subs, op, oc, Eval(subs[1], oc))

\* the comparison with the relations of Greater and Less exchanged
EvalRelationSwapped(kind, lhs, rhs) ==
    IF lhs.panic \/ rhs.panic THEN EvalPanic
    ELSE IF CASE kind = "Greater" -> U64Less(lhs.value, rhs.value)
              [] kind = "Less" -> U64Less(rhs.value, lhs.value)
              [] OTHER -> lhs.value = rhs.value
    THEN EvalValue(U64Of(1))
    ELSE EvalValue(U64Of(0))

\* if lhs > rhs / lhs < rhs / lhs == rhs { 1 } else { 0 }
EvalRelation(kind, lhs, rhs) ==
    IF lhs.panic \/ rhs.panic THEN EvalPanic
    ELSE IF CASE kind = "Greater" -> U64Less(rhs.value, lhs.value)
              [] kind = "Less" -> U64Less(lhs.value, rhs.value)
              [] OTHER -> lhs.value = rhs.value
    THEN EvalValue(U64Of(1))
    ELSE EvalValue(U64Of(0))

\* the Greater / Less / Equal arms: packets[0].eval(), packets[1].eval(); the
\* index panics when the child is missing
EvalCompare(subs, kind, oc) ==
    IF Len(subs) < 2 THEN EvalPanic
    ELSE EvalRelation(kind, Eval(subs[1], oc), Eval(subs[2], oc))

\* eval with the product folded from 0 in the place of 1
EvalProductFromZero(p, oc) ==
    CASE p.kind = "Literal" -> EvalValue(p.literal[1])
      [] p.kind = "Sum" -> EvalFold(p.packets, 1, "sum", U64Of(0), oc)
      [] p.kind = "Product" -> EvalFold(p.packets, 1, "product", U64Of(0), oc)
      [] p.kind = "Minimum" -> EvalMinMax(p.packets, "min", oc)
      [] p.kind = "Maximum" -> EvalMinMax(p.packets, "max", oc)
      [] OTHER -> EvalCompare(p.packets, p.kind, oc)

\* Packet::eval
Eval(p, oc) ==
    CASE p.kind = "Literal" -> EvalValue(p.literal[1])
      [] p.kind = "Sum" -> EvalFold(p.packets, 1, "sum", U64Of(0), oc)
      [] p.kind = "Product" -> EvalFold(p.packets, 1, "product", U64Of(1), oc)
      [] p.kind = "Minimum" -> EvalMinMax(p.packets, "min", oc)
      [] p.kind = "Maximum" -> EvalMinMax(p.packets, "max", oc)
      [] OTHER -> EvalCompare(p.packets, p.kind, oc)

----------------------------------------------------------------------------
(* Text: a string is a sequence of one-character strings.                  *)

DecimalDigits == <<"0", "1", "2", "3", "4", "5", "6", "7", "8", "9">>

\* u32::to_string
RECURSIVE NatToString(_)
NatToString(n) ==
    IF n < 10 THEN <<DecimalDigits[n + 1]>>
    ELSE NatToString(n \div 10) \o <<DecimalDigits[(n % 10) + 1]>>

\* quotient and remainder by ten of the first i nibbles of a u64
\* (long division, nibble by nibble)
RECURSIVE U64DivMod10UpTo(_, _)
U64DivMod10UpTo(v, i) ==
    IF i = 0 THEN [quot |-> <<>>, rem |-> 0]
    ELSE LET high == U64DivMod10UpTo(v, i - 1)
             x == high.rem * 16 + v[i]
         IN  [quot |-> Append(high.quot, x \div 10), rem |-> x % 10]

U64DivMod10(v) == U64DivMod10UpTo(v, Nibbles)

RECURSIVE U64ToString(_)

\* the decimal digits of a u64 given d, its quotient and remainder by ten
U64Digits(d) ==
    IF d.quot = U64Zero THEN <<DecimalDigits[d.rem + 1]>>
    ELSE U64ToString(d.quot) \o <<DecimalDigits[d.rem + 1]>>

\* u64::to_string
U64ToString(v) == U64Digits(U64DivMod10(v))

\* char::to_digit(16), -1 for a character that is no hexadecimal digit
HexDigit(c) ==
    CASE c = "0" -> 0 [] c = "1" -> 1 [] c = "2" -> 2 [] c = "3" -> 3
      [] c = "4" -> 4 [] c = "5" -> 5 [] c = "6" -> 6 [] c = "7" -> 7
      [] c = "8" -> 8 [] c = "9" -> 9
      [] c = "a" -> 10 [] c = "b" -> 11 [] c = "c" -> 12
      [] c = "d" -> 13 [] c = "e" -> 14 [] c = "f" -> 15
      [] c = "A" -> 10 [] c = "B" -> 11 [] c = "C" -> 12
      [] c = "D" -> 13 [] c = "E" -> 14 [] c = "F" -> 15
      [] OTHER -> -1

RECURSIVE ParseDigits(_, _)

\* the digit loop with radix 10 in the place of 16
ParseDigitsRadix10(digits, acc) ==
    IF digits = <<>> THEN acc
    ELSE IF HexDigit(Head(digits)) < 0 THEN -1
    ELSE ParseDigits(Tail(digits), acc * 10 + HexDigit(Head(digits)))

\* the digit loop of from_str_radix: -1 for an invalid digit
ParseDigits(digits, acc) ==
    IF digits = <<>> THEN acc
    ELSE IF HexDigit(Head(digits)) < 0 THEN -1
    ELSE ParseDigits(Tail(digits), acc * 16 + HexDigit(Head(digits)))

\* the range check of from_str_radix for u8: -1 for Err
U8Checked(v) == IF v > 255 THEN -1 ELSE v

\* u8::from_str_radix(src, 16) for a non-empty src: one leading '+' is
\* accepted, '-' is not a digit of an unsigned type; -1 for Err
FromStrRadix16(src) ==
    IF Head(src) \in {"+", "-"} /\ Len(src) = 1 THEN -1
    ELSE U8Checked(ParseDigits(IF Head(src) = "+" THEN Tail(src) ELSE src, 0))

RECURSIVE HexLoop(_, _, _)

\* the collect with each byte put before the bytes already gathered
HexCollectPrepend(s, i, acc, v) ==
    IF v < 0 THEN [tag |-> "Err", bytes |-> <<>>]
    ELSE HexLoop(s, i + 2, <<v>> \o acc)

\* one item of the collect into Result<Vec<u8>, _>: the first Err ends it
HexCollect(s, i, acc, v) ==
    IF v < 0 THEN [tag |-> "Err", bytes |-> <<>>]
    ELSE HexLoop(s, i + 2, Append(acc, v))

\* (0..s.len()).step_by(2).map(|i| from_str_radix(&s[i..i + 2], 16)).collect():
\* slicing past the end of the string panics
HexLoop(s, i, acc) ==
    IF i >= Len(s) THEN [tag |-> "Ok", bytes |-> acc]
    ELSE IF i + 2 > Len(s) THEN [tag |-> "panic", bytes |-> <<>>]
    ELSE HexCollect(s, i, acc, FromStrRadix16(SubSeq(s, i + 1, i + 2)))

\* hex::decode
HexDecode(s) == HexLoop(s, 0, <<>>)

----------------------------------------------------------------------------
(* The solver entry points.  input is the sequence of input lines; a       *)
(* result is Ok(text), Err or a panic.                                     *)

Ok(text) == [tag |-> "Ok", text |-> text]

Err(text) == [tag |-> "Err", text |-> text]

Panic == [tag |-> "panic", text |-> <<>>]

\* sub_packets without the Maximum arm
SubPacketsNoMaximum(packet) ==
    IF packet.kind \in {"Literal", "Maximum"} THEN [some |-> FALSE, packets |-> <<>>]
    ELSE [some |-> TRUE, packets |-> packet.packets]

\* Packet::sub_packets : None for a literal
SubPackets(packet) ==
    IF packet.kind = "Literal" THEN [some |-> FALSE, packets |-> <<>>]
    ELSE [some |-> TRUE, packets |-> packet.packets]

\* the breadth-first traversal of solve_part1: the sum of the versions of
\* the packets of the queue and of everything below them
RECURSIVE VersionSum(_, _)
VersionSum(to_traverse, versions) ==
    IF to_traverse = <<>> THEN versions
    ELSE LET packet == Head(to_traverse)
             sub_packets == SubPackets(packet)
         IN  VersionSum(IF sub_packets.some
                        THEN Tail(to_traverse) \o sub_packets.packets
                        ELSE Tail(to_traverse),
                        versions + packet.version)

\* solve_part1 after hex::decode, h its result
Part1OfBytes(h) ==
    IF h.tag = "panic" THEN Panic
    ELSE IF h.tag = "Err" THEN Err("ParseIntError")
    ELSE Ok(NatToString(VersionSum(Decode(h.bytes).packets, 0)))

\* Day16::solve_part1
SolvePart1(input) ==
    IF input = <<>> THEN Err("Empty packets")
    ELSE Part1OfBytes(HexDecode(Head(input)))

\* Ok(root.eval().to_string()), e the result of eval
Part2OfValue(e) == IF e.panic THEN Panic ELSE Ok(U64ToString(e.value))

\* solve_part2 taking the last top-level packet as the root
Part2OfPacketsLast(decoded, oc) ==
    IF decoded = <<>> THEN Err("Failed to retrieve root packet")
    ELSE Part2OfValue(Eval(decoded[Len(decoded)], oc))

\* solve_part2 after bits::decode: packets.first().ok_or(..)?
Part2OfPackets(decoded, oc) ==
    IF decoded = <<>> THEN Err("Failed to retrieve root packet")
    ELSE Part2OfValue(Eval(decoded[1], oc))

\* solve_part2 after hex::decode, h its result
Part2OfBytes(h, oc) ==
    IF h.tag = "panic" THEN Panic
    ELSE IF h.tag = "Err" THEN Err("ParseIntError")
    ELSE Part2OfPackets(Decode(h.bytes).packets, oc)

\* Day16::solve_part2
SolvePart2(input, oc) ==
    IF input = <<>> THEN Err("Empty packets")
    ELSE Part2OfBytes(HexDecode(Head(input)), oc)

----------------------------------------------------------------------------
(* Inputs.                                                                 *)

SeqsUpTo(S, n) == UNION {[1..m -> S] : m \in 0..n}

\* a bit string as a byte buffer, zero bits added to fill the last byte
RECURSIVE BytesOfBits(_)
BytesOfBits(bits) ==
    IF bits = <<>> THEN <<>>
    ELSE LET p == IF Len(bits) < 8
                  THEN bits \o SubSeq(<<0, 0, 0, 0, 0, 0, 0>>, 1, 8 - Len(bits))
                  ELSE bits
         IN  <<128 * p[1] + 64 * p[2] + 32 * p[3] + 16 * p[4]
               + 8 * p[5] + 4 * p[6] + 2 * p[7] + p[8]>>
             \o BytesOfBits(SubSeq(p, 9, Len(p)))

NibbleBits(x) == <<(x \div 8) % 2, (x \div 4) % 2, (x \div 2) % 2, x % 2>>

\* k 5-bit groups, all but the last with the top bit set; the first payload
\* is first, the others are rest
RECURSIVE GroupBits(_, _, _, _)
GroupBits(j, k, first, rest) ==
    IF j > k THEN <<>>
    ELSE <<IF j < k THEN 1 ELSE 0>> \o NibbleBits(IF j = 1 THEN first ELSE rest)
         \o GroupBits(j + 1, k, first, rest)

\* bytes of the small buffers
ByteAlphabet == {0, 165, 255}

SmallBuffers == SeqsUpTo(ByteAlphabet, MaxBufLen)

\* buffers that hold, from bit start on, a literal of k groups
VarintInputs ==
    {<<BytesOfBits(SubSeq(<<1, 1, 1, 1, 1, 1, 1, 1, 1>>, 1, start)
                   \o GroupBits(1, k, pay[1], pay[2])), start>> :
        start \in 0..MaxStart, k \in 1..MaxGroups,
        pay \in {<<0, 9>>, <<1, 0>>, <<15, 15>>, <<0, 0>>}}

\* transmissions: the test of Varint::decode and whole packets
ExampleBuffers ==
    {<<191, 138>>, <<210, 33>>, <<210, 33, 210>>,
     <<210, 254, 40>>,
     <<56, 0, 111, 69, 41, 18, 0>>,
     <<238, 0, 212, 12, 130, 48, 96>>,
     <<210, 254, 40, 210>>,
     <<210, 254, 40, 0, 0, 0>>,
     <<8, 0, 0>>,
     <<118, 0, 76, 40>>,
     <<126, 0, 0>>,
     <<34, 0, 212, 27, 132>>,
     <<32, 0, 61, 65, 184, 64>>,
     <<90, 0, 204, 41, 137, 80, 32>>,
     <<66, 0, 201, 128, 35, 6, 161, 27, 0, 22, 16, 226, 38, 203, 16>>,
     <<210, 254, 41, 133>>,
     <<32, 0, 23, 67, 128>>,
     <<66, 0, 201, 128, 35, 6, 161, 27, 0, 22, 16>>}

\* the low w bits of n, most significant first
RECURSIVE BitsOfNat(_, _)
BitsOfNat(n, w) ==
    IF w = 0 THEN <<>> ELSE Append(BitsOfNat(n \div 2, w - 1), n % 2)

\* a literal packet of one group
LiteralBits(version, x) ==
    BitsOfNat(version, 3) \o BitsOfNat(PACKET_LITERAL, 3) \o GroupBits(1, 1, x, x)

RECURSIVE ConcatBits(_)
ConcatBits(subs) ==
    IF subs = <<>> THEN <<>> ELSE Head(subs) \o ConcatBits(Tail(subs))

\* an operator packet over the bit strings of its sub-packets, their length
\* given in bits (length type 0) or as their number (length type 1)
OperatorBits(version, type_id, length_type, subs) ==
    BitsOfNat(version, 3) \o BitsOfNat(type_id, 3) \o <<length_type>>
    \o (IF length_type = 0
        THEN BitsOfNat(Len(ConcatBits(subs)), 15)
        ELSE BitsOfNat(Len(subs), 11))
    \o ConcatBits(subs)

\* most sub-packets of a generated operator
MaxSubs == 3

\* the sub-packets the generated operators are made of: three literals and
\* a product of two literals
SubAlphabet ==
    {LiteralBits(1, 0), LiteralBits(5, 3), LiteralBits(7, 15),
     OperatorBits(2, PACKET_PRODUCT, 1, <<LiteralBits(3, 2), LiteralBits(4, 5)>>)}

\* one operator of every kind and length type over up to MaxSubs sub-packets
OperatorBuffers ==
    {BytesOfBits(OperatorBits(version, type_id, length_type, subs)) :
        version \in {5}, type_id \in (0..7) \ {PACKET_LITERAL},
        length_type \in {0, 1}, subs \in SeqsUpTo(SubAlphabet, MaxSubs)}

UpperHexDigits ==
    <<"0", "1", "2", "3", "4", "5", "6", "7", "8", "9", "A", "B", "C", "D", "E", "F">>

\* the bytes written as text, two upper-case digits for each
RECURSIVE HexText(_)
HexText(b) ==
    IF b = <<>> THEN <<>>
    ELSE <<UpperHexDigits[(Head(b) \div 16) + 1], UpperHexDigits[(Head(b) % 16) + 1]>>
         \o HexText(Tail(b))

\* bit j of a stream made of a header and then n copies of one sub-packet,
\* zero bits after them
WideBit(header, sub, n, j) ==
    IF j < Len(header) THEN header[j + 1]
    ELSE IF j < Len(header) + n * Len(sub)
    THEN sub[((j - Len(header)) % Len(sub)) + 1]
    ELSE 0

\* byte i of that stream, the first being byte 0
WideByte(header, sub, n, i) ==
    128 * WideBit(header, sub, n, 8 * i) + 64 * WideBit(header, sub, n, 8 * i + 1)
    + 32 * WideBit(header, sub, n, 8 * i + 2) + 16 * WideBit(header, sub, n, 8 * i + 3)
    + 8 * WideBit(header, sub, n, 8 * i + 4) + 4 * WideBit(header, sub, n, 8 * i + 5)
    + 2 * WideBit(header, sub, n, 8 * i + 6) + WideBit(header, sub, n, 8 * i + 7)

WideBuffer(header, sub, n) ==
    [i \in 1..((Len(header) + n * Len(sub) + 7) \div 8) |->
        WideByte(header, sub, n, i - 1)]

\* the values written in the 11-bit count field: small ones, and the two
\* that set one of its upper bits
WideCounts == {0, 1, 2, 3, 4, 5, 512, 1024}

\* the number of literals that follow a header announcing count of them:
\* one more for the small counts, four times as many and more for the others
WideLiterals(count) == IF count < 512 THEN count + 1 ELSE 4 * count + 8

\* a count-mode operator at every bit position of a byte, followed by
\* literals of one group
WideInputs ==
    {<<WideBuffer(SubSeq(<<1, 1, 1, 1, 1, 1, 1>>, 1, start)
                  \o BitsOfNat(5, 3) \o BitsOfNat(PACKET_SUM, 3) \o <<1>>
                  \o BitsOfNat(count, 11),
                  LiteralBits(3, 1), WideLiterals(count)), start>> :
        start \in 0..MaxStart, count \in WideCounts}

\* (buffer, start offset) pairs handed to BitReader::new
ReaderInputs ==
    {<<b, start>> : b \in SmallBuffers, start \in 0..(8 * MaxBufLen)}
    \cup VarintInputs \cup ((ExampleBuffers \cup OperatorBuffers) \X {0})

\* longest line of the exhaustive family of short lines
MaxLineLen == 3

LineAlphabet == {"0", "8", "F", "a", "+", "-", "g"}

ShortLines == SeqsUpTo(LineAlphabet, MaxLineLen)

ExampleLines ==
    {<<"D", "2", "F", "E", "2", "8">>,
     <<"3", "8", "0", "0", "6", "F", "4", "5", "2", "9", "1", "2", "0", "0">>,
     <<"E", "E", "0", "0", "D", "4", "0", "C", "8", "2", "3", "0", "6", "0">>,
     <<"9", "C", "0", "1", "4", "1", "0", "8", "0", "2", "5", "0", "3", "2", "0", "F", "1", "8", "0", "2", "1", "0", "4", "A", "0", "8">>,
     <<"D", "2", "F", "E", "2", "8", "D", "2">>,
     <<"D", "2", "F", "E">>,
     <<"D", "2", "F", "E", "2", "8", "0", "0", "0", "0", "0", "0">>,
     <<"0", "0", "0", "0", "0", "0">>,
     <<"0", "8", "0", "0", "0", "0">>,
     <<"C", "2", "0", "0", "B", "4", "0", "A", "8", "2">>,
     <<"0", "4", "0", "0", "5", "A", "C", "3", "3", "8", "9", "0">>,
     <<"8", "8", "0", "0", "8", "6", "C", "3", "E", "8", "8", "1", "1", "2">>,
     <<"C", "E", "0", "0", "C", "4", "3", "D", "8", "8", "1", "1", "2", "0">>,
     <<"D", "8", "0", "0", "5", "A", "C", "2", "A", "8", "F", "0">>,
     <<"F", "6", "0", "0", "B", "C", "2", "D", "8", "F">>,
     <<"9", "C", "0", "0", "5", "A", "C", "2", "F", "8", "F", "0">>,
     <<"8", "A", "0", "0", "4", "A", "8", "0", "1", "A", "8", "0", "0", "2", "F", "4", "7", "8">>,
     <<"A", "0", "0", "1", "6", "C", "8", "8", "0", "1", "6", "2", "0", "1", "7", "C", "3", "6", "8", "6", "B", "1", "8", "A", "3", "D", "4", "7", "8", "0">>,
     <<"7", "6", "0", "0", "4", "C", "2", "8">>,
     <<"7", "6", "0", "0", "C", "C", "4", "9", "8", "5", "5", "0", "E", "0">>,
     <<"7", "E", "0", "0", "0", "0">>,
     <<"0", "6", "0", "0", "8", "4", "8", "C", "2", "1", "0", "8", "4", "2", "1", "0", "0", "0", "9", "1", "8", "4", "2", "1", "0", "8", "4", "2", "0", "0">>,
     <<"2", "2", "0", "0", "D", "4", "1", "B", "8", "4">>,
     <<"2", "0", "0", "0", "3", "D", "4", "1", "B", "8", "4", "0">>,
     <<"d", "2", "f", "e", "2", "8">>,
     <<"D", "2", "F", "E", "2">>,
     <<"+", "D", "2", "F">>,
     <<"D", "2", "-", "8">>,
     <<"D", "2", "F", "E", "2", "9", "8", "5">>,
     <<"D", "2", "F", "E", "2", "8", "4", "0", "0", "0", "0", "0">>,
     <<"5", "A", "0", "0", "C", "C", "2", "9", "8", "9", "5", "0", "2", "0">>,
     <<"9", "C", "0", "0", "8", "4", "C", "3", "9", "8", "7", "5", "0", "6">>,
     <<"4", "2", "0", "0", "C", "9", "8", "0", "2", "3", "0", "6", "A", "1", "1", "B", "0", "0", "1", "6", "1", "0", "E", "2", "2", "6", "C", "B", "1", "0">>,
     <<"8", "A", "0", "0", "E", "C", "4", "6", "8", "7", "1", "1", "2", "0">>,
     <<"2", "2", "0", "0", "8", "4", "8", "C", "2", "1", "0", "8", "4", "2", "1", "0", "8", "4", "0", "A", "2", "4", "6", "1", "0", "8", "4", "2", "1", "0", "8", "4", "2", "0", "7", "0">>,
     <<"d", "2", "F", "e", "2", "8">>}

\* the lines handed to the solver: no line at all, or one line
\* the generated operators as transmissions
OperatorLines == {HexText(b) : b \in OperatorBuffers}

SolverInputs ==
    {<<>>} \cup {<<s>> : s \in ShortLines \cup ExampleLines \cup OperatorLines}

----------------------------------------------------------------------------
(* Specification of the reader: one operation applied to a BitReader made  *)
(* over a buffer at a start offset.                                        *)

ReaderIdle == buf = <<>> /\ offset = 0 /\ ret = [op |-> "none"]

SolverIdle ==
    /\ lines = <<>> /\ pc = "idle" /\ bytes = <<>> /\ packets = <<>>
    /\ answer = [tag |-> "none"] /\ overflow_checks = FALSE

\* BitReader::new(buf, start_offset)
Init ==
    /\ \E inp \in ReaderInputs : buf = inp[1] /\ offset = inp[2]
    /\ ret = [op |-> "new"]
    /\ SolverIdle

\* reader.consume::<u8>(count) or reader.consume::<u16>(count)
ConsumeStep(count, width) ==
    /\ ret.op = "new"
    /\ \E r \in {Consume(buf, offset, count, width)} :
           /\ offset' = r.offset
           /\ ret' = [op |-> "consume", width |-> width, count |-> count,
                      start |-> offset, some |-> r.some, value |-> r.value]
    /\ UNCHANGED <<buf, solverVars>>

ConsumeU8 == \E count \in 1..(U8_BITS + 1) : ConsumeStep(count, U8_BITS)

ConsumeU16 == \E count \in 1..(U16_BITS + 1) : ConsumeStep(count, U16_BITS)

\* Varint::decode(&mut reader)
VarintStep ==
    /\ ret.op = "new"
    /\ \E r \in {VarintDecode(buf, offset)} :
           /\ offset' = r.offset
           /\ ret' = [op |-> "varint", start |-> offset, some |-> r.some,
                      value |-> r.value, size |-> r.size]
    /\ UNCHANGED <<buf, solverVars>>

\* decode_packet(&mut reader)
PacketStep ==
    /\ ret.op = "new"
    /\ \E r \in {DecodePacket(buf, offset)} :
           /\ offset' = r.offset
           /\ ret' = [op |-> "packet", start |-> offset, some |-> r.some,
                      packet |-> r.packet]
    /\ UNCHANGED <<buf, solverVars>>

\* bits::decode(buf): the reader is made at offset 0 and run to the end
DecodeStep ==
    /\ ret.op = "new"
    /\ offset = 0
    /\ \E r \in {Decode(buf)} :
           /\ offset' = r.offset
           /\ ret' = [op |-> "decode", start |-> 0, packets |-> r.packets,
                      last_start |-> r.last_start]
    /\ UNCHANGED <<buf, solverVars>>

Next == ConsumeU8 \/ ConsumeU16 \/ VarintStep \/ PacketStep \/ DecodeStep

Spec == Init /\ [][Next]_vars

\* BitReader::new on a count-mode operator followed by many literals
InitWide ==
    /\ \E inp \in WideInputs : buf = inp[1] /\ offset = inp[2]
    /\ ret = [op |-> "new"]
    /\ SolverIdle

\* decode_packet on the operators with many children
SpecWide == InitWide /\ [][PacketStep]_vars

\* BitReader::new(buf) on a transmission, the reader then used call after call
InitCalls ==
    /\ buf \in ExampleBuffers
    /\ offset = 0
    /\ ret = [op |-> "new"]
    /\ SolverIdle

\* one more reader.consume::<u8>(count) or reader.consume::<u16>(count) on
\* the reader as the calls before left it
CallConsume ==
    \E width \in {U8_BITS, U16_BITS} : \E count \in 1..(width + 1) :
        /\ \E r \in {Consume(buf, offset, count, width)} :
               /\ offset' = r.offset
               /\ ret' = [op |-> "consume", width |-> width, count |-> count,
                          start |-> offset, some |-> r.some, value |-> r.value]
        /\ UNCHANGED <<buf, solverVars>>

\* one more Varint::decode(&mut reader)
CallVarint ==
    /\ \E r \in {VarintDecode(buf, offset)} :
           /\ offset' = r.offset
           /\ ret' = [op |-> "varint", start |-> offset, some |-> r.some,
                      value |-> r.value, size |-> r.size]
    /\ UNCHANGED <<buf, solverVars>>

\* one more decode_packet(&mut reader)
CallPacket ==
    /\ \E r \in {DecodePacket(buf, offset)} :
           /\ offset' = r.offset
           /\ ret' = [op |-> "packet", start |-> offset, some |-> r.some,
                      packet |-> r.packet]
    /\ UNCHANGED <<buf, solverVars>>

NextCalls == CallConsume \/ CallVarint \/ CallPacket

\* any sequence of calls on one BitReader
SpecCalls == InitCalls /\ [][NextCalls]_vars

\* an operator over one sub-packet followed by one more top-level packet
TwoPacketBuffers ==
    {BytesOfBits(OperatorBits(5, PACKET_SUM, length_type, <<sub>>) \o next) :
        length_type \in {0, 1}, sub \in SubAlphabet, next \in SubAlphabet}

\* buffers handed to bits::decode turn by turn
LoopBuffers == SmallBuffers \cup ExampleBuffers \cup TwoPacketBuffers

\* the states a reader over one of these buffers can be in
LoopPoints == UNION {{b} \X (0..(8 * Len(b))) : b \in LoopBuffers}

\* decode_packet on each of them, worked out once so that whether a turn of
\* the loop can be taken is a look-up
PacketTable ==
    {[buf |-> x[1], offset |-> x[2], result |-> DecodePacket(x[1], x[2])] :
        x \in LoopPoints}

\* decode_packet on a reader over b at off
PacketAt(b, off) ==
    (CHOOSE t \in PacketTable : t.buf = b /\ t.offset = off).result

\* bits::decode(buf) entered: BitReader::new(buf), packets = Vec::new()
InitLoop ==
    /\ buf \in LoopBuffers
    /\ offset = 0
    /\ ret = [op |-> "new"]
    /\ lines = <<>> /\ bytes = <<>> /\ answer = [tag |-> "none"]
    /\ overflow_checks = FALSE
    /\ packets = <<>>
    /\ pc = "decoding"

\* one turn of `while let Some(packet) = decode_packet(&mut reader)`: the
\* packet is pushed, or the loop ends at None and decode returns packets
LoopTurn ==
    /\ pc = "decoding"
    /\ \E r \in {PacketAt(buf, offset)} :
           /\ offset' = r.offset
           /\ ret' = [op |-> "packet", start |-> offset, some |-> r.some,
                      packet |-> r.packet]
           /\ packets' = IF r.some THEN Append(packets, r.packet) ELSE packets
           /\ pc' = IF r.some THEN "decoding" ELSE "decoded"
    /\ UNCHANGED <<buf, lines, bytes, answer, overflow_checks>>

\* bits::decode turn by turn; the loop is not preempted, so a turn that can
\* be taken is taken
SpecLoop == InitLoop /\ [][LoopTurn]_vars /\ WF_vars(LoopTurn)

----------------------------------------------------------------------------
(* Specification of the solver: one input, the pipeline stage by stage     *)
(* (hex::decode, bits::decode, Packet::eval) and the two entry points.     *)

InitSolve ==
    /\ lines \in SolverInputs
    /\ overflow_checks \in BOOLEAN
    /\ pc = "start"
    /\ bytes = <<>>
    /\ packets = <<>>
    /\ answer = [tag |-> "none"]
    /\ ReaderIdle

\* hex::decode(&line) on the first line
HexStep ==
    /\ pc = "start"
    /\ lines # <<>>
    /\ \E h \in {HexDecode(Head(lines))} :
           /\ pc' = IF h.tag = "Ok" THEN "bytes" ELSE "hex_failed"
           /\ bytes' = h.bytes
           /\ answer' = [tag |-> h.tag]
    /\ UNCHANGED <<lines, packets, overflow_checks, readerVars>>

\* bits::decode(bytes.as_slice())
BitsStep ==
    /\ pc = "bytes"
    /\ pc' = "packets"
    /\ packets' = Decode(bytes).packets
    /\ UNCHANGED <<lines, bytes, answer, overflow_checks, readerVars>>

\* packet.eval() on one of the decoded top-level packets
EvalStep ==
    /\ pc = "packets"
    /\ \E i \in 1..Len(packets) :
          \E e \in {Eval(packets[i], overflow_checks)} :
              answer' = [tag |-> "eval", index |-> i, panic |-> e.panic,
                         value |-> e.value]
    /\ pc' = "evaluated"
    /\ UNCHANGED <<lines, bytes, packets, overflow_checks, readerVars>>

\* Day16.solve_part1(lines)
Part1Step ==
    /\ pc = "start"
    /\ pc' = "part1"
    /\ answer' = SolvePart1(lines)
    /\ UNCHANGED <<lines, bytes, packets, overflow_checks, readerVars>>

\* Day16.solve_part2(lines)
Part2Step ==
    /\ pc = "start"
    /\ pc' = "part2"
    /\ answer' = SolvePart2(lines, overflow_checks)
    /\ UNCHANGED <<lines, bytes, packets, overflow_checks, readerVars>>

NextSolve == HexStep \/ BitsStep \/ EvalStep \/ Part1Step \/ Part2Step

SpecSolve == InitSolve /\ [][NextSolve]_vars

----------------------------------------------------------------------------
(* Reference readings of a buffer, bit by bit, for the properties.         *)

\* bit i of the buffer, bit 0 the most significant bit of the first byte
BitAt(b, i) == (b[(i \div 8) + 1] \div Pow2(7 - (i % 8))) % 2

\* the unsigned integer written by bits start .. start+n-1, most significant first
RECURSIVE BitsValue(_, _, _)
BitsValue(b, start, n) ==
    IF n = 0 THEN 0 ELSE 2 * BitsValue(b, start, n - 1) + BitAt(b, start + n - 1)

\* k when the stream holds, from bit o on, groups number k.. of which the
\* first with a clear top bit is found whole in the buffer; 0 when none is
RECURSIVE LastGroupFrom(_, _, _)
LastGroupFrom(b, o, k) ==
    IF o + 5 > 8 * Len(b) THEN 0
    ELSE IF BitAt(b, o) = 0 THEN k
    ELSE LastGroupFrom(b, o + 5, k + 1)

\* the number of 5-bit groups of the literal at bit start, 0 when unterminated
GroupCount(b, start) == LastGroupFrom(b, start, 1)

\* the 4-bit payloads of groups 1..k at bit start, most significant first
RECURSIVE PayloadNibbles(_, _, _)
PayloadNibbles(b, start, k) ==
    IF k = 0 THEN <<>>
    ELSE Append(PayloadNibbles(b, start, k - 1), BitsValue(b, start + 5 * (k - 1) + 1, 4))

\* every packet of a forest, at any depth
RECURSIVE AllPackets(_)
AllPackets(queue) ==
    IF queue = <<>> THEN <<>>
    ELSE <<Head(queue)>>
         \o AllPackets(Tail(queue) \o SubPackets(Head(queue)).packets)

\* no operator packet of the forest, at any depth, is without children
OperatorsNonEmpty(forest) ==
    \A i \in 1..Len(AllPackets(forest)) :
        LET p == AllPackets(forest)[i]
        IN  p.kind # "Literal" => p.packets # <<>>

\* every comparison packet of the forest, at any depth, has two children
ComparisonsBinary(forest) ==
    \A i \in 1..Len(AllPackets(forest)) :
        LET p == AllPackets(forest)[i]
        IN  p.kind \in {"Greater", "Less", "Equal"} => Len(p.packets) = 2

\* a 1 bit is left in the stream from bit o on
OneBitFrom(b, o) == \E i \in o..(8 * Len(b) - 1) : BitAt(b, i) = 1

\* bits::decode stopped inside a packet: the refused decode_packet call began
\* where bits other than zero padding were left
StoppedInsidePacket(b) == OneBitFrom(b, Decode(b).last_start)

\* bits::decode stopped exactly at the end of the stream
StoppedAtBoundary(b) == Decode(b).last_start = 8 * Len(b)

\* largest number of zero bytes of padding added after a transmission
MaxPad == 3

ZeroBytes(n) == SubSeq(<<0, 0, 0, 0, 0, 0, 0, 0>>, 1, n)

Line_D2FE28 == <<"D", "2", "F", "E", "2", "8">>

Line_38006F45291200 == <<"3", "8", "0", "0", "6", "F", "4", "5", "2", "9", "1", "2", "0", "0">>

Line_9C01 == <<"9", "C", "0", "1", "4", "1", "0", "8", "0", "2", "5", "0", "3", "2", "0", "F", "1", "8", "0", "2", "1", "0", "4", "A", "0", "8">>

----------------------------------------------------------------------------
(* Properties.                                                             *)

\* C1: for 1 <= count <= width and offset + count <= 8 * len(buffer),
\* consume(count) returns the integer written by bits offset .. offset+count-1
\* read most significant bit first, whatever the number of bytes spanned.
C1_ConsumeReadsBitsBigEndian ==
    (/\ ret.op = "consume"
     /\ ret.count <= ret.width
     /\ ret.start + ret.count <= 8 * Len(buf))
    => /\ ret.some
       /\ ret.value = BitsValue(buf, ret.start, ret.count)

\* C2: at k groups (1 <= k <= 15), the first k-1 with the top bit set and the
\* k-th with it clear, Varint::decode returns Varint(v, k), v the k payloads
\* most significant first, and leaves the cursor 5*k bits further; the groups
\* 10111 11110 00101 give Varint(2021, 3).
C2_VarintDecodesGroups ==
    ret.op = "varint" =>
        LET k == GroupCount(buf, ret.start)
        IN  /\ (k >= 1 /\ k <= 15) =>
                  /\ ret.some
                  /\ ret.size = k
                  /\ ret.value = SubSeq(U64Zero, 1, Nibbles - k)
                                 \o PayloadNibbles(buf, ret.start, k)
                  /\ offset = ret.start + 5 * k
            /\ (buf = <<191, 138>> /\ ret.start = 0) =>
                  /\ ret.some
                  /\ ret.value = U64Of(2021)
                  /\ ret.size = 3

\* a literal of 15 groups with a non-zero first payload, read from a bit
\* offset inside a byte
C2_Witness ==
    /\ ret.op = "varint"
    /\ GroupCount(buf, ret.start) = 15
    /\ ret.start % 8 # 0
    /\ ret.some
    /\ ret.value[2] = 15

\* C3: decoding "D2FE28" yields exactly one top-level packet, a Literal of
\* version 6 and value 2021; the 3 padding bits give no further packet.
C3_D2FE28IsOneLiteral ==
    (lines = <<Line_D2FE28>> /\ pc = "packets") =>
        /\ Len(packets) = 1
        /\ packets[1].kind = "Literal"
        /\ packets[1].version = 6
        /\ packets[1].literal[1] = U64Of(2021)

C3_Witness == lines = <<Line_D2FE28>> /\ pc = "packets" /\ bytes = <<210, 254, 40>>

\* C4: decoding "38006F45291200" yields one operator packet, its length type
\* bit 0 and its 15-bit total_bits field 27, whose children are exactly two
\* Literal packets of values 10 and 20 in that order.
C4_TotalBitsOperator ==
    (lines = <<Line_38006F45291200>> /\ pc = "packets") =>
        /\ BitAt(bytes, 6) = 0
        /\ BitsValue(bytes, 7, 15) = 27
        /\ Len(packets) = 1
        /\ packets[1].kind \in {"Sum", "Product", "Minimum", "Maximum",
                                "Greater", "Less", "Equal"}
        /\ Len(packets[1].packets) = 2
        /\ packets[1].packets[1].kind = "Literal"
        /\ packets[1].packets[1].literal[1] = U64Of(10)
        /\ packets[1].packets[2].kind = "Literal"
        /\ packets[1].packets[2].literal[1] = U64Of(20)

C4_Witness == lines = <<Line_38006F45291200>> /\ pc = "packets" /\ Len(bytes) = 7

\* C5: for the line "9C0141080250320F1802104A08" solve_part2 returns Ok("1").
C5_Part2OfExampleIsOne ==
    (lines = <<Line_9C01>> /\ pc = "part2") => answer = Ok(<<"1">>)

C5_Witness == lines = <<Line_9C01>> /\ pc = "part2" /\ answer.tag = "Ok"

\* C6: bits::decode stops without failure when the stream ends at a packet
\* boundary, and a stream that ends inside a started packet gives an outcome
\* that differs from the outcome of every stream that ends at a boundary (here:
\* of every prefix of the stream that does).
C6_TruncatedStreamIsDistinguished ==
    (ret.op = "decode" /\ StoppedInsidePacket(buf)) =>
        \A n \in 0..Len(buf) :
            StoppedAtBoundary(SubSeq(buf, 1, n))
                => Decode(SubSeq(buf, 1, n)).packets # ret.packets

\* C7: solve_part1 and solve_part2 return Err whenever a stage fails: when
\* hex::decode returns Err, or when a started packet cannot be completely
\* decoded, the result is Err, never an answer computed from the packets
\* decoded so far.
C7_FailureIsReported ==
    (/\ pc \in {"part1", "part2"}
     /\ lines # <<>>
     /\ \/ HexDecode(Head(lines)).tag = "Err"
        \/ /\ HexDecode(Head(lines)).tag = "Ok"
           /\ StoppedInsidePacket(HexDecode(Head(lines)).bytes))
    => answer.tag = "Err"

\* C8: zero padding bits after the last complete packet are never
\* interpreted: for a buffer of one or more complete packets, each operator
\* with children, followed by zero bits only, bits::decode returns the same
\* packets when any number of zero bytes is added at the end.
C8_PaddingNeverInterpreted ==
    (/\ ret.op = "decode"
     /\ ret.packets # <<>>
     /\ OperatorsNonEmpty(ret.packets)
     /\ ~StoppedInsidePacket(buf))
    => \A z \in 1..MaxPad : Decode(buf \o ZeroBytes(z)).packets = ret.packets

\* C9: every operator packet the decoder returns, at any depth, carries at
\* least one child packet.
C9_OperatorsHaveChildren ==
    /\ ret.op = "decode" => OperatorsNonEmpty(ret.packets)
    /\ (ret.op = "packet" /\ ret.some) => OperatorsNonEmpty(<<ret.packet>>)

\* C10: Packet::eval completes with a value on every packet bits::decode
\* returns, here on the packets of a forest in which every operator has
\* children and every comparison has two of them: no arithmetic overflow
\* aborts a sum or a product.
C10_EvalNeverAborts ==
    (/\ pc = "evaluated"
     /\ OperatorsNonEmpty(packets)
     /\ ComparisonsBinary(packets))
    => ~answer.panic

----------------------------------------------------------------------------
(* hex::decode against the reading of the text digit by digit.             *)

LowerHexDigits ==
    <<"0", "1", "2", "3", "4", "5", "6", "7", "8", "9", "a", "b", "c", "d", "e", "f">>

\* c is one of 0-9, a-f, A-F
IsHexDigitChar(c) == \E v \in 1..16 : LowerHexDigits[v] = c \/ UpperHexDigits[v] = c

\* the value of the hexadecimal digit c
HexValue(c) == (CHOOSE v \in 1..16 : LowerHexDigits[v] = c \/ UpperHexDigits[v] = c) - 1

\* every character of the text is a hexadecimal digit
AllHexDigits(s) == \A i \in 1..Len(s) : IsHexDigitChar(s[i])

\* hex::decode has run on the first line
HexDecoded == pc \in {"bytes", "hex_failed"} /\ lines # <<>>

\* C11: hex::decode of a string of odd length returns Err: it does not abort
\* and does not decode or drop the last half-byte (here for strings of
\* hexadecimal digits, so that no other character is the cause).
C11_OddLengthIsParseError ==
    (/\ HexDecoded
     /\ Len(Head(lines)) % 2 = 1
     /\ AllHexDigits(Head(lines)))
    => answer.tag = "Err"

\* C12: hex::decode of a string of even length returns Err whenever a
\* character of it is not a hexadecimal digit, a sign such as '+' at the
\* head of a two-character group included.
C12_NonHexIsParseError ==
    (/\ HexDecoded
     /\ Len(Head(lines)) % 2 = 0
     /\ ~AllHexDigits(Head(lines)))
    => answer.tag = "Err"

\* C13: for a string of 2*m hexadecimal digits, upper or lower case,
\* hex::decode returns Ok with m bytes, byte i being 16 times the value of
\* digit 2i-1 plus the value of digit 2i, in the order of the text.
C13_HexPairsAreBytes ==
    (/\ HexDecoded
     /\ Len(Head(lines)) % 2 = 0
     /\ AllHexDigits(Head(lines)))
    => /\ answer.tag = "Ok"
       /\ pc = "bytes"
       /\ Len(bytes) * 2 = Len(Head(lines))
       /\ \A i \in 1..Len(bytes) :
              bytes[i] = 16 * HexValue(Head(lines)[2 * i - 1])
                         + HexValue(Head(lines)[2 * i])

\* a text of three bytes with digits of both cases
C13_Witness ==
    /\ pc = "bytes"
    /\ Head(lines) = <<"d", "2", "F", "e", "2", "8">>
    /\ bytes = <<210, 254, 40>>

----------------------------------------------------------------------------
(* solve_part1 against the sum over the forest taken depth first.          *)

RECURSIVE TreeVersionSum(_), ForestVersionSum(_)
\* the version of a packet plus the versions of everything below it
TreeVersionSum(p) ==
    p.version + (IF p.kind = "Literal" THEN 0 ELSE ForestVersionSum(p.packets))

\* the versions of the packets of a forest, each tree after the other
ForestVersionSum(forest) ==
    IF forest = <<>> THEN 0
    ELSE TreeVersionSum(Head(forest)) + ForestVersionSum(Tail(forest))

RECURSIVE TreeSize(_), ForestSize(_)
\* the number of packets of a tree
TreeSize(p) == 1 + (IF p.kind = "Literal" THEN 0 ELSE ForestSize(p.packets))

\* the number of packets of a forest
ForestSize(forest) ==
    IF forest = <<>> THEN 0 ELSE TreeSize(Head(forest)) + ForestSize(Tail(forest))

\* the text is hexadecimal and the decoder gave this forest for it
ForestOfLine(line) == Decode(HexDecode(line).bytes).packets

Line_Nested ==
    <<"4", "2", "0", "0", "C", "9", "8", "0", "2", "3", "0", "6", "A", "1", "1",
      "B", "0", "0", "1", "6", "1", "0", "E", "2", "2", "6", "C", "B", "1", "0">>

\* C14: solve_part1 returns the sum of the version of every packet of the
\* decoded forest, at every depth and each packet once; the order of the
\* traversal does not matter (the code goes breadth first, the sum here is
\* taken depth first).
C14_Part1IsVersionSum ==
    (/\ pc = "part1"
     /\ lines # <<>>
     /\ HexDecode(Head(lines)).tag = "Ok")
    => answer = Ok(NatToString(ForestVersionSum(ForestOfLine(Head(lines)))))

\* an operator holding operators holding literals: eight packets, three levels
C14_Witness ==
    /\ pc = "part1"
    /\ lines # <<>>
    /\ Head(lines) = Line_Nested
    /\ ForestSize(ForestOfLine(Line_Nested)) = 8
    /\ answer.tag = "Ok"
    /\ answer.text = NatToString(ForestVersionSum(ForestOfLine(Line_Nested)))
    /\ ForestVersionSum(ForestOfLine(Line_Nested)) > (ForestOfLine(Line_Nested))[1].version

----------------------------------------------------------------------------
(* Packet::eval against the fold of the tree over the naturals.  The       *)
(* reference works on naturals up to RefCap and is undefined (-1) above    *)
(* it, for an arithmetic operator without children and for a comparison    *)
(* with fewer than two.                                                    *)

RefCap == Pow2(28)

RECURSIVE NatOfNibbles(_)
NatOfNibbles(v) ==
    IF v = <<>> THEN 0
    ELSE 16 * NatOfNibbles(SubSeq(v, 1, Len(v) - 1)) + v[Len(v)]

\* the natural a u64 stands for, -1 when it is RefCap or more
RefValue(v) ==
    IF SubSeq(v, 1, Nibbles - 7) # SubSeq(U64Zero, 1, Nibbles - 7) THEN -1
    ELSE NatOfNibbles(SubSeq(v, Nibbles - 6, Nibbles))

\* a op b over the naturals up to RefCap
RefCombine(op, a, b) ==
    IF a < 0 \/ b < 0 THEN -1
    ELSE CASE op = "sum" -> IF a + b > RefCap THEN -1 ELSE a + b
           [] op = "product" ->
                  IF a = 0 \/ b = 0 THEN 0
                  ELSE IF a > RefCap \div b THEN -1 ELSE a * b
           [] op = "min" -> IF a <= b THEN a ELSE b
           [] op = "max" -> IF a <= b THEN b ELSE a

\* 1 when the relation of the kind holds between a and b, else 0
RefRelation(kind, a, b) ==
    IF a < 0 \/ b < 0 THEN -1
    ELSE IF CASE kind = "Greater" -> a > b
              [] kind = "Less" -> a < b
              [] kind = "Equal" -> a = b
    THEN 1 ELSE 0

RECURSIVE RefEval(_), RefFold(_, _, _, _)
\* the children from position i on folded into acc
RefFold(subs, i, op, acc) ==
    IF i > Len(subs) THEN acc
    ELSE RefFold(subs, i + 1, op, RefCombine(op, acc, RefEval(subs[i])))

\* the value of a tree
RefEval(p) ==
    CASE p.kind = "Literal" -> RefValue(p.literal[1])
      [] p.kind = "Sum" ->
             IF p.packets = <<>> THEN -1 ELSE RefFold(p.packets, 1, "sum", 0)
      [] p.kind = "Product" ->
             IF p.packets = <<>> THEN -1 ELSE RefFold(p.packets, 1, "product", 1)
      [] p.kind = "Minimum" ->
             IF p.packets = <<>> THEN -1
             ELSE RefFold(p.packets, 2, "min", RefEval(p.packets[1]))
      [] p.kind = "Maximum" ->
             IF p.packets = <<>> THEN -1
             ELSE RefFold(p.packets, 2, "max", RefEval(p.packets[1]))
      [] OTHER ->
             IF Len(p.packets) < 2 THEN -1
             ELSE RefRelation(p.kind, RefEval(p.packets[1]), RefEval(p.packets[2]))

ArithmeticKinds == {"Literal", "Sum", "Product", "Minimum", "Maximum"}

ComparisonKinds == {"Greater", "Less", "Equal"}

\* eval has run on a top-level packet
Evaluated == pc = "evaluated" /\ answer.tag = "eval"

\* C15: eval is the recursive fold of the tree: a literal gives its value,
\* Sum the sum, Product the product, Minimum the least and Maximum the
\* greatest of the values of the children, for trees whose operators have
\* children and whose intermediate results fit (here: stay within RefCap);
\* eval does not panic on them, with or without overflow checks.
C15_EvalIsRecursiveFold ==
    (/\ Evaluated
     /\ packets[answer.index].kind \in ArithmeticKinds
     /\ RefEval(packets[answer.index]) >= 0)
    => /\ ~answer.panic
       /\ answer.value = U64Of(RefEval(packets[answer.index]))

\* the sum of a product, a maximum and a literal: 3 * 4 + 9 + 100
C15_Witness ==
    /\ Evaluated
    /\ Head(lines) = Line_Nested
    /\ packets[answer.index].kind = "Sum"
    /\ Len(packets[answer.index].packets) = 3
    /\ packets[answer.index].packets[1].kind = "Product"
    /\ packets[answer.index].packets[2].kind = "Maximum"
    /\ ~answer.panic
    /\ answer.value = U64Of(121)

----------------------------------------------------------------------------
(* solve_part2 and the first top-level packet.                             *)

\* what solve_part2 must answer for the forest f
Part2Expected(f, ans) ==
    /\ f = <<>> => ans.tag = "Err"
    /\ (f # <<>> /\ RefEval(f[1]) >= 0) => ans = Ok(NatToString(RefEval(f[1])))

Line_D2FE28400000 ==
    <<"D", "2", "F", "E", "2", "8", "4", "0", "0", "0", "0", "0">>

\* C16: solve_part2 returns the value of the first top-level packet alone:
\* the answer is a function of that packet whatever follows it, and when
\* decoding gives no top-level packet the answer is an error.
C16_Part2IsFirstPacket ==
    (/\ pc = "part2"
     /\ lines # <<>>
     /\ HexDecode(Head(lines)).tag = "Ok")
    => Part2Expected(ForestOfLine(Head(lines)), answer)

\* the literal 2021 followed by a second top-level packet, a Minimum
\* without children, whose own evaluation would panic
C16_Witness ==
    /\ pc = "part2"
    /\ lines # <<>>
    /\ Head(lines) = Line_D2FE28400000
    /\ Len(ForestOfLine(Line_D2FE28400000)) = 2
    /\ (ForestOfLine(Line_D2FE28400000))[2].kind = "Minimum"
    /\ Eval((ForestOfLine(Line_D2FE28400000))[2], overflow_checks).panic
    /\ answer = Ok(<<"2", "0", "2", "1">>)

----------------------------------------------------------------------------
(* The comparison arms of Packet::eval.                                    *)

\* what eval must return for a comparison of this kind over subs
CompareExpected(kind, subs, ans) ==
    /\ ~ans.panic
    /\ ans.value = U64Of(RefRelation(kind, RefEval(subs[1]), RefEval(subs[2])))
    /\ ans.value \in {U64Of(0), U64Of(1)}

\* C17: for a Greater, Less or Equal packet with at least two children eval
\* returns 1 when the relation holds between the values of the first and
\* the second child and 0 when it does not; the result is 0 or 1 and is a
\* function of the first two children alone.
C17_ComparisonOfFirstTwo ==
    (/\ Evaluated
     /\ packets[answer.index].kind \in ComparisonKinds
     /\ Len(packets[answer.index].packets) >= 2
     /\ RefEval(packets[answer.index].packets[1]) >= 0
     /\ RefEval(packets[answer.index].packets[2]) >= 0)
    => CompareExpected(packets[answer.index].kind, packets[answer.index].packets,
                       answer)

\* a Less packet of three children whose first is below the second and
\* whose third is below both
C17_Witness ==
    /\ Evaluated
    /\ packets[answer.index].kind = "Less"
    /\ Len(packets[answer.index].packets) = 3
    /\ RefEval(packets[answer.index].packets[1]) >= 0
    /\ RefEval(packets[answer.index].packets[1])
           < RefEval(packets[answer.index].packets[2])
    /\ RefEval(packets[answer.index].packets[3])
           < RefEval(packets[answer.index].packets[1])
    /\ RefEval(packets[answer.index].packets[3]) >= 0
    /\ answer.value = U64Of(1)

----------------------------------------------------------------------------
(* The shape of the trees decode_packet builds.                            *)

\* C18: every Greater, Less or Equal packet the decoder produces, at any
\* depth and for any buffer, has exactly two sub-packets (here for trees
\* in which no operator is without children).
C18_ComparisonsHaveTwoChildren ==
    /\ (ret.op = "decode" /\ OperatorsNonEmpty(ret.packets))
           => ComparisonsBinary(ret.packets)
    /\ (ret.op = "packet" /\ ret.some /\ OperatorsNonEmpty(<<ret.packet>>))
           => ComparisonsBinary(<<ret.packet>>)

\* where each packet of a tree begins in the stream: a literal of k groups
\* takes 6 + 5k bits, an operator a header of 7 bits, a length field of 15
\* or 11 bits by the bit after the type id, and then its children one after
\* the other.  The result lists every packet with its first bit, in the
\* order of the stream, and gives the bit after the last.
RECURSIVE PlaceTree(_, _, _), PlaceForest(_, _, _)

PlaceJoin(t, r) == [list |-> t.list \o r.list, end |-> r.end]

PlaceRest(b, rest, t) == PlaceJoin(t, PlaceForest(b, rest, t.end))

PlaceForest(b, forest, s) ==
    IF forest = <<>> THEN [list |-> <<>>, end |-> s]
    ELSE PlaceRest(b, Tail(forest), PlaceTree(b, Head(forest), s))

PlaceOperator(p, s, r) ==
    [list |-> <<[packet |-> p, start |-> s]>> \o r.list, end |-> r.end]

PlaceTree(b, p, s) ==
    IF p.kind = "Literal"
    THEN [list |-> <<[packet |-> p, start |-> s]>>, end |-> s + 6 + 5 * p.literal[2]]
    ELSE PlaceOperator(p, s,
             PlaceForest(b, p.packets,
                         s + 7 + (IF BitAt(b, s + 6) = 0 THEN 15 ELSE 11)))

\* the kind of each type id
KindTable ==
    <<"Sum", "Product", "Minimum", "Maximum", "Literal", "Greater", "Less", "Equal">>

\* the u64 that k groups at bit s spell: their payloads, the last 16 of them
LiteralAt(b, s, k) ==
    SubSeq(U64Zero \o PayloadNibbles(b, s, k), k + 1, k + Nibbles)

\* the packet placed at its first bit has the kind of the type id found
\* there, and a literal the value of the groups found there
KindMatches(b, e) ==
    /\ e.packet.kind = KindTable[BitsValue(b, e.start + 3, 3) + 1]
    /\ e.packet.kind = "Literal"
           => e.packet.literal[1] = LiteralAt(b, e.start + 6, e.packet.literal[2])

AllKindsMatch(b, list) == \A i \in 1..Len(list) : KindMatches(b, list[i])

\* the tree returned by decode_packet lies in the stream from the reader's
\* first position to its last, every packet of the kind of its type id
PacketKindsMatch(b, p, end) ==
    /\ p.end = end
    /\ AllKindsMatch(b, p.list)

Buf_Nested == <<66, 0, 201, 128, 35, 6, 161, 27, 0, 22, 16, 226, 38, 203, 16>>

\* C19: decode_packet gives a packet the kind of its 3-bit type id, 0 Sum,
\* 1 Product, 2 Minimum, 3 Maximum, 4 Literal, 5 Greater, 6 Less, 7 Equal,
\* with the sub-packets in the order in which they lie in the stream; every
\* type id that can be read has a kind, so the refusal of an unknown type id
\* is never the reason of a None.
C19_KindsFollowTypeIds ==
    /\ \A t \in (0..7) \ {PACKET_LITERAL} : KindOf(t) = KindTable[t + 1]
    /\ ret.op = "decode" => AllKindsMatch(buf, PlaceForest(buf, ret.packets, 0).list)
    /\ (ret.op = "packet" /\ ret.some)
           => PacketKindsMatch(buf, PlaceTree(buf, ret.packet, ret.start), offset)
    /\ (/\ ret.op = "packet"
        /\ ret.start + 6 <= 8 * Len(buf)
        /\ BitsValue(buf, ret.start + 3, 3) # PACKET_LITERAL)
           => KindOf(BitsValue(buf, ret.start + 3, 3)) # "None"

\* a Sum of a Product, a Maximum and a literal, in that order in the stream
C19_Witness ==
    /\ ret.op = "decode"
    /\ buf = Buf_Nested
    /\ Len(ret.packets) = 1
    /\ ret.packets[1].kind = "Sum"
    /\ BitsValue(buf, 3, 3) = PACKET_SUM
    /\ Len(ret.packets[1].packets) = 3
    /\ ret.packets[1].packets[1].kind = "Product"
    /\ ret.packets[1].packets[2].kind = "Maximum"
    /\ ret.packets[1].packets[3].kind = "Literal"
    /\ Len(PlaceForest(buf, ret.packets, 0).list) = 8

\* the packet placed at its first bit has the version written by the three
\* bits found there, most significant first
VersionMatches(b, e) ==
    /\ e.packet.version \in 0..7
    /\ e.packet.version = BitsValue(b, e.start, 3)

AllVersionsMatch(b, list) == \A i \in 1..Len(list) : VersionMatches(b, list[i])

\* C20: the version of every packet the decoder produces, at any depth and
\* for any buffer, is in 0..7 and is the number written by the 3 bits at the
\* first bit of the packet, most significant bit first.
C20_VersionIsFirstThreeBits ==
    /\ ret.op = "decode"
           => AllVersionsMatch(buf, PlaceForest(buf, ret.packets, 0).list)
    /\ (ret.op = "packet" /\ ret.some)
           => AllVersionsMatch(buf, PlaceTree(buf, ret.packet, ret.start).list)

\* versions 2, 1, 1, 2 down the first branch of a tree of three levels, the
\* last of them read at bits 47..49 across two bytes
C20_Witness ==
    /\ ret.op = "decode"
    /\ buf = Buf_Nested
    /\ ret.packets[1].version = 2
    /\ ret.packets[1].packets[1].version = 1
    /\ ret.packets[1].packets[1].packets[1].version = 1
    /\ ret.packets[1].packets[1].packets[2].version = 2
    /\ PlaceForest(buf, ret.packets, 0).list[4].start = 47
    /\ PlaceForest(buf, ret.packets, 0).list[4].packet
           = ret.packets[1].packets[1].packets[2]

----------------------------------------------------------------------------
(* The cursor of the BitReader.                                            *)

\* C22: whenever consume returns no value, because count is above the width
\* of the result type or because the buffer ends before count bits are
\* gathered (bits of earlier bytes already read or not), the cursor is where
\* it was before the call.
C22_FailedConsumeKeepsCursor ==
    (ret.op = "consume" /\ ~ret.some) => offset = ret.start

\* a read refused at the end of the buffer after bits of a byte before it
\* were read: the request begins inside the buffer and ends outside
C22_Witness ==
    /\ ret.op = "consume"
    /\ ~ret.some
    /\ ret.count <= ret.width
    /\ ret.start < 8 * Len(buf)
    /\ ret.start + ret.count > 8 * Len(buf)
    /\ offset = ret.start

\* C28: for 1 <= count <= width of the result type, consume(count) returns a
\* value exactly when offset + count <= 8 * len(buffer), and a successful
\* call moves the cursor by exactly count bits.
C28_ConsumeSucceedsIffBitsLeft ==
    (/\ ret.op = "consume"
     /\ 1 <= ret.count
     /\ ret.count <= ret.width)
    => /\ ret.some <=> (ret.start + ret.count <= 8 * Len(buf))
       /\ ret.some => offset = ret.start + ret.count

\* a read of 11 bits from inside a byte that ends on the last bit of the
\* buffer
C28_Witness ==
    /\ ret.op = "consume"
    /\ ret.count = 11
    /\ ret.start % 8 = 5
    /\ ret.start + ret.count = 8 * Len(buf)
    /\ ret.some
    /\ offset = 8 * Len(buf)

----------------------------------------------------------------------------
(* Varint::decode and the 64 bits of its accumulator.                      *)

\* the k groups at bit s spell a number below 2^64: the groups before the
\* last 16 carry zero payloads
FitsU64(b, s, k) ==
    \A i \in 1..(k - Nibbles) : PayloadNibbles(b, s, k)[i] = 0

\* C23: Varint::decode never overflows silently: a returned Varint(v, k) has
\* v equal to the number the k payloads spell, most significant first, none
\* of its bits shifted out of the accumulator; and when the groups spell a
\* number that does not fit in 64 bits no value is returned.
C23_VarintNeverWraps ==
    ret.op = "varint" =>
        /\ ret.some =>
               /\ ret.size = GroupCount(buf, ret.start)
               /\ ret.size >= 1
               /\ FitsU64(buf, ret.start, ret.size)
               /\ ret.value = LiteralAt(buf, ret.start, ret.size)
        /\ (/\ GroupCount(buf, ret.start) >= 1
            /\ ~FitsU64(buf, ret.start, GroupCount(buf, ret.start)))
               => ~ret.some

\* 17 groups of which the first carries 1: the number is 2^64 and is refused
C23_Witness ==
    /\ ret.op = "varint"
    /\ GroupCount(buf, ret.start) = Nibbles + 1
    /\ PayloadNibbles(buf, ret.start, 1) = <<1>>
    /\ ~FitsU64(buf, ret.start, Nibbles + 1)
    /\ ~ret.some

\* C24: when the stream is exhausted before a group with a clear top bit is
\* read (every whole group from the cursor on has its top bit set, or fewer
\* than 5 bits are left), Varint::decode returns no value, and so does the
\* decode_packet call that reads the literal.
C24_ExhaustedVarintFails ==
    /\ (ret.op = "varint" /\ GroupCount(buf, ret.start) = 0) => ~ret.some
    /\ (/\ ret.op = "packet"
        /\ ret.start + 6 <= 8 * Len(buf)
        /\ BitsValue(buf, ret.start + 3, 3) = PACKET_LITERAL
        /\ GroupCount(buf, ret.start + 6) = 0)
           => ~ret.some

\* a literal packet whose first group is whole and has its top bit set, the
\* stream ending before a last group
C24_Witness ==
    /\ ret.op = "packet"
    /\ ret.start + 11 <= 8 * Len(buf)
    /\ BitsValue(buf, ret.start + 3, 3) = PACKET_LITERAL
    /\ BitAt(buf, ret.start + 6) = 1
    /\ GroupCount(buf, ret.start + 6) = 0
    /\ ~ret.some

\* C29: the overflow guard of Varint::decode is tight: every terminated
\* sequence of groups that spells a number below 2^64, a literal of 16
\* groups with a non-zero first payload included, is decoded to exactly that
\* number.
C29_VarintGuardIsTight ==
    (/\ ret.op = "varint"
     /\ GroupCount(buf, ret.start) >= 1
     /\ FitsU64(buf, ret.start, GroupCount(buf, ret.start)))
    => /\ ret.some
       /\ ret.value = LiteralAt(buf, ret.start, GroupCount(buf, ret.start))

----------------------------------------------------------------------------
(* The length fields of operator packets.                                  *)

\* the operator placed at e.start was read in the total-bits mode
TotalBitsMode(b, e) == e.packet.kind # "Literal" /\ BitAt(b, e.start + 6) = 0

\* end_offset as decode_packet computes it for the operator at bit s: the
\* offset after the 15-bit field plus the value read from it
EndOffsetAt(b, s) == s + 22 + Consume(b, s + 7, 15, U16_BITS).value

\* the sub-packets of the operator placed at e.start end at its end_offset
EndsAtEndOffset(b, e) ==
    PlaceTree(b, e.packet, e.start).end = EndOffsetAt(b, e.start)

\* C27: for an operator packet with length_type_id == 0, whenever
\* decode_packet succeeds the cursor is exactly at end_offset, the offset
\* just after the 15-bit field plus total_bits: the sub-packets take exactly
\* total_bits bits and a last sub-packet running past end_offset is not
\* accepted.
C27_TotalBitsEndsAtEndOffset ==
    (ret.op = "packet" /\ ret.some)
    => \A i \in 1..Len(PlaceTree(buf, ret.packet, ret.start).list) :
           TotalBitsMode(buf, PlaceTree(buf, ret.packet, ret.start).list[i])
               => EndsAtEndOffset(buf, PlaceTree(buf, ret.packet, ret.start).list[i])

\* C26: for an operator packet with length_type_id == 1 a successful
\* decode_packet returns exactly N children, N the number written by the 11
\* bits after the length-type bit, most significant first, at whatever bit
\* of a byte the field starts (at bits 6 and 7 it spans three bytes) and for
\* every N in 0..2047.
C26_CountModeGivesNChildren ==
    (/\ ret.op = "packet"
     /\ ret.some
     /\ ret.packet.kind # "Literal"
     /\ BitAt(buf, ret.start + 6) = 1)
    => Len(ret.packet.packets) = BitsValue(buf, ret.start + 7, 11)

----------------------------------------------------------------------------
(* Failures of sub-packets.  The decode_packet calls an operator makes are *)
(* followed from the stream: one call where the previous one stopped,      *)
(* until the count or the end offset read from the header is reached.      *)

\* the call at bit s reads the header of an operator and its length field
ReadsOperator(b, s) ==
    /\ s + 7 <= 8 * Len(b)
    /\ BitsValue(b, s + 3, 3) # PACKET_LITERAL
    /\ Consume(b, s + 7, IF BitAt(b, s + 6) = 0 THEN 15 ELSE 11, U16_BITS).some

\* where the first sub-packet of the operator at bit s begins
FirstSubAt(b, s) == s + 7 + (IF BitAt(b, s + 6) = 0 THEN 15 ELSE 11)

\* the bound of the sub-packet calls of the operator at bit s: end_offset in
\* the total-bits mode, packets_count in the count mode
SubLimitAt(b, s) ==
    IF BitAt(b, s + 6) = 0
    THEN FirstSubAt(b, s) + Consume(b, s + 7, 15, U16_BITS).value
    ELSE Consume(b, s + 7, 11, U16_BITS).value

RECURSIVE DeepFailure(_, _), SubFailure(_, _, _, _, _)

\* the sub-packet call number i + 1 gave d at bit off: it failed, or a call
\* below it failed, or a later call of the same operator does
SubFailureAt(b, off, mode, limit, i, d) ==
    \/ ~d.some
    \/ DeepFailure(b, off)
    \/ SubFailure(b, d.offset, mode, limit, i + 1)

\* a sub-packet call of an operator fails, from call number i + 1 at bit
\* off on
SubFailure(b, off, mode, limit, i) ==
    IF (mode = 0 /\ off >= limit) \/ (mode = 1 /\ i >= limit) THEN FALSE
    ELSE SubFailureAt(b, off, mode, limit, i, DecodePacket(b, off))

\* a decode_packet call made for a sub-packet of the packet at bit s, at any
\* depth below it, fails
DeepFailure(b, s) ==
    /\ ReadsOperator(b, s)
    /\ SubFailure(b, FirstSubAt(b, s), BitAt(b, s + 6), SubLimitAt(b, s), 0)

\* no packet of the list has a failed sub-packet call below it
NoneHoldsFailure(b, list) == \A i \in 1..Len(list) : ~DeepFailure(b, list[i].start)

\* C25: when the decoding of a sub-packet fails, at any depth and in either
\* length mode, decode_packet returns no value for every operator around
\* it: no operator is returned that holds only the children decoded before
\* the failure.
C25_SubPacketFailurePropagates ==
    /\ (ret.op = "packet" /\ DeepFailure(buf, ret.start)) => ~ret.some
    /\ (ret.op = "packet" /\ ret.some)
           => NoneHoldsFailure(buf, PlaceTree(buf, ret.packet, ret.start).list)
    /\ ret.op = "decode"
           => NoneHoldsFailure(buf, PlaceForest(buf, ret.packets, 0).list)

\* a Sum whose first sub-packet, a Product, is decoded and whose second, a
\* Maximum, fails on its own first sub-packet when the stream ends: the
\* failure two levels down leaves nothing returned
C25_Witness ==
    /\ ret.op = "packet"
    /\ buf = SubSeq(Buf_Nested, 1, 11)
    /\ ret.start = 0
    /\ DecodePacket(buf, FirstSubAt(buf, 0)).some
    /\ DecodePacket(buf, FirstSubAt(buf, 0)).offset = 58
    /\ ReadsOperator(buf, 58)
    /\ ~DecodePacket(buf, FirstSubAt(buf, 58)).some
    /\ DeepFailure(buf, 58)
    /\ DeepFailure(buf, 0)
    /\ ~ret.some

----------------------------------------------------------------------------
(* C21: the cursor only moves forward.                                     *)

\* C21: across any sequence of consume, Varint::decode and decode_packet
\* calls on one BitReader, successful or failing, the bit offset of the
\* cursor never decreases
C21_CursorNeverDecreases == [][offset' >= offset]_vars

\* a decode_packet call, made after earlier calls had moved the cursor, that
\* failed inside a sub-packet and left the cursor past where it began
C21_Witness ==
    /\ ret.op = "packet"
    /\ ~ret.some
    /\ ret.start > 0
    /\ offset > ret.start + 22

----------------------------------------------------------------------------
(* C30: bits::decode terminates.                                           *)

\* the turn of the loop just taken pushed a packet and its decode_packet
\* call moved the cursor by at least 11 bits for every packet it decoded,
\* the sub-packets at every depth included
TurnAdvances ==
    /\ ret.some
    /\ offset >= ret.start + 11 * TreeSize(ret.packet)
    /\ offset <= 8 * Len(buf)

\* C30: bits::decode terminates on every finite byte buffer: every
\* successful decode_packet call advances the cursor by at least 11 bits
\* (for each packet of the tree it returns, so the loops and the recursion
\* inside it are bounded by the bits of the buffer too), and the top-level
\* loop reaches its end
C30_DecodeTerminates ==
    /\ [](pc = "decoding" /\ ret.op = "packet" => TurnAdvances)
    /\ <>(pc = "decoded")

\* decode has returned two top-level packets, the first an operator with
\* sub-packets that are operators themselves
C30_Witness ==
    /\ pc = "decoded"
    /\ Len(packets) >= 2
    /\ packets[1].kind # "Literal"
    /\ \E i \in 1..Len(packets[1].packets) : packets[1].packets[i].kind # "Literal"

====
